---- MODULE Spec2Model ----
(***************************************************************************)
(* Model of backend/ml/olist_to_delay_dataset.py (the Dataset Builder) and *)
(* backend/ml/train_delay_predictor.py (the Model Trainer).                *)
(*                                                                         *)
(* Units.  Timestamps are counted in ticks of 12 seconds (300 ticks per    *)
(* hour), so that a duration in hundredths of an hour is ticks / 3 and is  *)
(* never exactly half way between two hundredths.  time_hours is held in   *)
(* hundredths of an hour, staff_workload in tenths, and the results of     *)
(* random.uniform / random.random in thousandths.                          *)
(***************************************************************************)
EXTENDS Integers, Sequences, FiniteSets, TLC

VARIABLES
    pc,           \* position of the operator's current run ("idle" between runs)
    datasetFile,  \* delay_risk_dataset.json on disk
    modelFile,    \* delay_model.json on disk
    env,          \* the machine: candidate directories, tables, sklearn, PRNG stream
    data,         \* the local variable data of the running main()
    model,        \* the local variable model of the Trainer's main()
    before,       \* the two files as they were when the current/last run started
    result,       \* how the last run ended
    call,         \* arguments of the function under test (function specifications)
    ret           \* its return value (function specifications)

vars == <<pc, datasetFile, modelFile, env, data, model, before, result, call, ret>>

\* values of the variables a specification does not use
NoModel == [type |-> "none"]
NoFile == [state |-> "absent", content |-> <<>>]
NoModelFile == [state |-> "absent", content |-> NoModel]
NoEnv == [dirs |-> <<>>, hasSklearn |-> FALSE, mt42 |-> 1]
NoResult == [script |-> "none", outcome |-> "none", stage |-> "none", printed |-> <<>>]
NoBefore == [dataset |-> NoFile, model |-> NoModelFile]

Min(a, b) == IF a < b THEN a ELSE b
Max(a, b) == IF a > b THEN a ELSE b

\* round(x / d) for x >= 0; the values the model feeds it are never exact ties
RoundDiv(x, d) == (2 * x + d) \div (2 * d)

(***************************************************************************)
(* The random module.  The Mersenne Twister is abstracted to a small       *)
(* multiplicative generator: every call advances the state once and        *)
(* derives its value from the new state.  random.seed(42) puts the         *)
(* generator in the state env.mt42, which is fixed for a behaviour.        *)
(***************************************************************************)
RngMod == 101
RngMul == 2
NextRng(rng) == (rng * RngMul) % RngMod

\* the fractions of [0,1) that random.random() can return, in thousandths
FracGrid == <<0, 167, 333, 500, 833, 999>>
Fractions == {FracGrid[i] : i \in 1..Len(FracGrid)}

\* each Rand* operator takes the state AFTER the call's advance
RandInt(rng, lo, hi) == lo + (rng % (hi - lo + 1))
RandChoice(rng, seq) == seq[(rng % Len(seq)) + 1]
RandRandom(rng) == FracGrid[(rng % Len(FracGrid)) + 1]
\* a + (b - a) * random(), in thousandths, for a and b in thousandths
UniformOf(frac, a, b) == a + ((b - a) * frac) \div 1000
RandUniform(rng, a, b) == UniformOf(RandRandom(rng), a, b)

(***************************************************************************)
(* train_delay_predictor.py                                                *)
(***************************************************************************)
FEATURE_NAMES == <<"quantity", "priority", "time_hours", "has_deadline",
                   "staff_workload", "num_tasks", "num_candidates", "channel">>

QuantityChoices == <<5, 10, 15, 20, 25, 30, 50, 75, 100, 150, 200>>

\* staff_workload values w (tenths) for which the float comparison
\* time_hours > (8 - staff_workload) is true although time_hours equals
\* 8 - staff_workload in decimal (8 - w is computed in binary floating point)
FloatGtTies == {44, 49, 54, 59, 62, 64, 67, 69, 72, 74, 77, 79}

\* time_hours > (8 - staff_workload), th in hundredths, w in tenths
ExceedsCapacity(th, w) ==
    \/ th > 800 - 10 * w
    \/ th = 800 - 10 * w /\ w \in FloatGtTies

\* the five deterministic branches of the if / elif chain (lines 55-64)
SynthRuleMutNoQuantity(quantity, priority, th, has_deadline, w, num_candidates) ==
    \/ has_deadline = 1 /\ ExceedsCapacity(th, w)
    \/ quantity >= 100 /\ num_candidates <= 1
    \/ w >= 60 /\ th >= 400
    \/ priority = 3 /\ th >= 600

SynthRule(quantity, priority, th, has_deadline, w, num_candidates) ==
    \/ has_deadline = 1 /\ ExceedsCapacity(th, w)
    \/ quantity >= 100 /\ num_candidates <= 1
    \/ w >= 60 /\ th >= 400
    \/ quantity >= 150
    \/ priority = 3 /\ th >= 600

\* One iteration of generate_synthetic_dataset's loop body, given the values
\* drawn: u = random.uniform(0, 0.5), wDraw = random.uniform(0, 8) and
\* r = random.random() (thousandths).  r is only consulted (and only drawn)
\* when no deterministic branch fired.
SynthRecord(quantity, priority, u, has_deadline, wDraw, num_candidates, channel, r) ==
    LET time_hours == RoundDiv(100 * quantity + 500 + u, 10)
        staff_workload == RoundDiv(wDraw, 100)
        delayed == IF SynthRule(quantity, priority, time_hours, has_deadline,
                                staff_workload, num_candidates)
                   THEN 1
                   ELSE IF r < 150 THEN 1 ELSE 0
    IN [quantity |-> quantity, priority |-> priority, time_hours |-> time_hours,
        has_deadline |-> has_deadline, staff_workload |-> staff_workload,
        num_tasks |-> 3, num_candidates |-> num_candidates, channel |-> channel,
        delayed |-> delayed]

\* The loop body with its draws taken from the generator, in call order.
\* Returns the record and the generator state after the iteration.
SynthStep(rng) ==
    LET r1 == NextRng(rng)   \* random.choice([5, ..., 200])
        r2 == NextRng(r1)    \* random.randint(0, 3)
        r3 == NextRng(r2)    \* random.uniform(0, 0.5)
        r4 == NextRng(r3)    \* random.choice([0, 1])
        r5 == NextRng(r4)    \* random.uniform(0, 8)
        r6 == NextRng(r5)    \* random.choice([1, 2, 3])
        r7 == NextRng(r6)    \* random.choice([0, 1])
        r8 == NextRng(r7)    \* random.random(), when reached
        quantity == RandChoice(r1, QuantityChoices)
        priority == RandInt(r2, 0, 3)
        u == RandUniform(r3, 0, 500)
        has_deadline == RandChoice(r4, <<0, 1>>)
        wDraw == RandUniform(r5, 0, 8000)
        num_candidates == RandChoice(r6, <<1, 2, 3>>)
        channel == RandChoice(r7, <<0, 1>>)
        rec == SynthRecord(quantity, priority, u, has_deadline, wDraw,
                           num_candidates, channel, RandRandom(r8))
        drewResidual == ~SynthRule(quantity, priority, rec.time_hours, has_deadline,
                                   rec.staff_workload, num_candidates)
    IN [rec |-> rec, rng |-> IF drewResidual THEN r8 ELSE r7]

\* n iterations of the loop starting from generator state rng.  The range is
\* halved so that evaluation depth is logarithmic; the iterations are still
\* applied in order, each from the generator state the previous one left.
RECURSIVE SynthLoop(_, _)
SynthLoop(n, rng) ==
    IF n <= 0 THEN [data |-> <<>>, rng |-> rng]
    ELSE IF n = 1 THEN LET s == SynthStep(rng) IN [data |-> <<s.rec>>, rng |-> s.rng]
    ELSE LET left == SynthLoop(n \div 2, rng)
             right == SynthLoop(n - n \div 2, left.rng)
         IN [data |-> left.data \o right.data, rng |-> right.rng]

\* generate_synthetic_dataset(n): random.seed(42), then n iterations
generate_synthetic_dataset(n, mt42) == SynthLoop(n, mt42).data

(***************************************************************************)
(* Training.  The numbers scikit-learn computes are outside the model: a   *)
(* number in a TrainedModel is either a literal of the source (in          *)
(* thousandths) or a fitted value.  What is modelled is the shape: X has   *)
(* one column per name in FEATURE_NAMES, and coef_[0], mean_ and scale_    *)
(* have one entry per column of X.                                         *)
(***************************************************************************)
Literal(milli) == [fitted |-> FALSE, milli |-> milli]
Fitted == [fitted |-> TRUE, milli |-> 0]

\* LogisticRegression.fit raises ValueError unless y holds both classes
SingleClass(rows) == \A i \in 1..Len(rows) : rows[i].delayed = rows[1].delayed

\* train_simple with seven entries in scaler_mean
train_simpleMutShortMean(rows) ==
    [type |-> "logistic_regression",
     features |-> FEATURE_NAMES,
     coef |-> <<Literal(15), Literal(300), Literal(400), Literal(200),
                Literal(250), Literal(100), Literal(-500), Literal(0)>>,
     intercept |-> Literal(-2000),
     scaler_mean |-> [i \in 1..7 |-> Literal(0)],
     scaler_scale |-> [i \in 1..8 |-> Literal(1000)]]

train_simple(rows) ==
    [type |-> "logistic_regression",
     features |-> FEATURE_NAMES,
     coef |-> <<Literal(15), Literal(300), Literal(400), Literal(200),
                Literal(250), Literal(100), Literal(-500), Literal(0)>>,
     intercept |-> Literal(-2000),
     scaler_mean |-> [i \in 1..8 |-> Literal(0)],
     scaler_scale |-> [i \in 1..8 |-> Literal(1000)]]

\* train_with_sklearn(data), when it does not raise
train_with_sklearn(rows) ==
    LET X == [i \in 1..Len(rows) |->
                 [c \in 1..Len(FEATURE_NAMES) |-> rows[i][FEATURE_NAMES[c]]]]
        columns == IF Len(X) = 0 THEN 0 ELSE Len(X[1])
    IN [type |-> "logistic_regression",
        features |-> FEATURE_NAMES,
        coef |-> [c \in 1..columns |-> Fitted],
        intercept |-> Fitted,
        scaler_mean |-> [c \in 1..columns |-> Fitted],
        scaler_scale |-> [c \in 1..columns |-> Fitted]]

(***************************************************************************)
(* Files.  A file is absent, holds a complete JSON document (state "ok"),  *)
(* or holds a document cut short by a failed write (state "corrupt").      *)
(* with open(path, "w") as f: json.dump(...) has three outcomes: it        *)
(* succeeds; open() raises and the file is untouched; open() truncates the *)
(* file and the write raises before the document is complete.              *)
(***************************************************************************)
IoOutcomes == {"ok", "open_fails", "write_fails"}

WriteFile(file, content, io) ==
    IF io = "ok" THEN [state |-> "ok", content |-> content]
    ELSE IF io = "open_fails" THEN file
    ELSE [state |-> "corrupt", content |-> content]

(***************************************************************************)
(* olist_to_delay_dataset.py: CSV values                                   *)
(*                                                                         *)
(* A CSV field is either None (csv.DictReader's fill for a row shorter     *)
(* than the header) or a string.  A string is modelled by its text and by  *)
(* whether it carries surrounding whitespace (pad), which str.strip()      *)
(* removes.  A date field's text is described by its format:               *)
(*   "full"      YYYY-MM-DD HH:MM:SS                                       *)
(*   "date"      YYYY-MM-DD                                                *)
(*   "datejunk"  a valid YYYY-MM-DD followed by other text, such as        *)
(*               YYYY-MM-DDTHH:MM:SS or fractional seconds                 *)
(*   "empty"     the empty string (pad: whitespace only)                   *)
(*   "junk"      any other text                                            *)
(* with day the calendar day number and tod the time of day in ticks.      *)
(***************************************************************************)
None == [none |-> TRUE, text |-> "", pad |-> FALSE]
Str(text) == [none |-> FALSE, text |-> text, pad |-> FALSE]
Padded(text) == [none |-> FALSE, text |-> text, pad |-> TRUE]
Strip(s) == [s EXCEPT !.pad = FALSE]

NoneDate == [none |-> TRUE, fmt |-> "empty", day |-> 0, tod |-> 0, pad |-> FALSE]
DateStr(fmt, day, tod) == [none |-> FALSE, fmt |-> fmt, day |-> day, tod |-> tod, pad |-> FALSE]
PaddedDateStr(fmt, day, tod) == [none |-> FALSE, fmt |-> fmt, day |-> day, tod |-> tod, pad |-> TRUE]

TicksPerDay == 7200
NoDate == [ok |-> FALSE, t |-> 0]
DateTime(t) == [ok |-> TRUE, t |-> t]

\* parse_date(s): None for a missing or blank value; else the stripped text
\* parsed as a full timestamp; else its first 10 characters parsed as a date
parse_date(s) ==
    IF s.none \/ s.fmt = "empty" THEN NoDate
    ELSE IF s.fmt = "full" THEN DateTime(s.day * TicksPerDay + s.tod)
    ELSE IF s.fmt \in {"date", "datejunk"} THEN DateTime(s.day * TicksPerDay)
    ELSE NoDate

(***************************************************************************)
(* transform_olist_to_delay_dataset                                        *)
(***************************************************************************)
\* lines 58-66 raise AttributeError on the first items row whose order_id is
\* None, or whose order_id is non-blank and whose seller_id is None
\* (row.get(k, "") returns the None that DictReader stored, and None.strip()
\* fails)
ItemsScanRaises(items) ==
    \E i \in 1..Len(items) :
        \/ items[i].order_id.none
        \/ Strip(items[i].order_id).text # "" /\ items[i].seller_id.none

\* order_quantity: the stripped, non-blank order ids with their row counts
OrderQuantity(items) ==
    LET oids == {Strip(items[i].order_id) : i \in 1..Len(items)} \ {Str("")}
    IN [oid \in oids |->
          Cardinality({i \in 1..Len(items) : Strip(items[i].order_id) = oid})]

\* order_sellers: per order id, the set of its stripped, non-blank seller ids
OrderSellers(items) ==
    LET oids == {Strip(items[i].order_id) : i \in 1..Len(items)} \ {Str("")}
    IN [oid \in oids |->
          {Strip(items[i].seller_id) :
              i \in {j \in 1..Len(items) : Strip(items[j].order_id) = oid}}
          \ {Str("")}]

\* the row filter of lines 75-82
RowRetainedMutAnyStatus(row) ==
    /\ parse_date(row.order_delivered_customer_date).ok
    /\ parse_date(row.order_estimated_delivery_date).ok
    /\ parse_date(row.order_purchase_timestamp).ok

RowRetained(row) ==
    /\ row.order_status = Str("delivered")
    /\ parse_date(row.order_delivered_customer_date).ok
    /\ parse_date(row.order_estimated_delivery_date).ok
    /\ parse_date(row.order_purchase_timestamp).ok

\* delayed = 1 if delivered > estimated else 0
DelayedLabelMutNotEarlier(delivered, estimated) == IF delivered >= estimated THEN 1 ELSE 0

DelayedLabel(delivered, estimated) == IF delivered > estimated THEN 1 ELSE 0

\* time_hours in hundredths from the window in ticks, without the lower clamp
TimeHoursMutNoFloor(window) == RoundDiv(Max(Min(window, 60000), 0), 3)

\* round(min(max(window / 3600 s, 0.5), 200), 2) in hundredths; window in ticks
TimeHours(window) == RoundDiv(Min(Max(window, 150), 60000), 3)

\* lines 84-118: the record of a retained row.  count is the order's entry
\* in order_quantity (1 when absent), num_sellers the size of its seller
\* set, the dates are the parsed timestamps in ticks, and priority, u
\* (random.uniform(0, 2), thousandths), num_candidates and channel are the
\* values drawn.
OlistRecord(count, num_sellers, purchase, delivered, estimated, priority, u, num_candidates, channel) ==
    [quantity |-> Max(1, Min(count, 200)),
     priority |-> priority,
     time_hours |-> TimeHours(estimated - purchase),
     has_deadline |-> 1,
     staff_workload |-> RoundDiv(Min(num_sellers * 1500 + u, 8000), 100),
     num_tasks |-> 3,
     num_candidates |-> num_candidates,
     channel |-> channel,
     delayed |-> DelayedLabel(delivered, estimated)]

\* the loop body for a retained row, its four draws taken in call order
OrderStep(row, order_quantity, order_sellers, rng) ==
    LET r1 == NextRng(rng)   \* random.randint(0, 3)
        r2 == NextRng(r1)    \* random.uniform(0, 2)
        r3 == NextRng(r2)    \* random.choice([1, 2, 3])
        r4 == NextRng(r3)    \* random.choice([0, 1])
        oid == row.order_id
        count == IF oid \in DOMAIN order_quantity THEN order_quantity[oid] ELSE 1
        sellers == IF oid \in DOMAIN order_sellers THEN order_sellers[oid] ELSE {}
    IN [rec |-> OlistRecord(count, Cardinality(sellers),
                            parse_date(row.order_purchase_timestamp).t,
                            parse_date(row.order_delivered_customer_date).t,
                            parse_date(row.order_estimated_delivery_date).t,
                            RandInt(r1, 0, 3), RandUniform(r2, 0, 2000),
                            RandChoice(r3, <<1, 2, 3>>), RandChoice(r4, <<0, 1>>)),
        rng |-> r4]

\* the break test of lines 120-121: made only after a record was appended
LimitReached(collected, max_samples) == Len(collected) >= max_samples

\* The loop state: the records so far, the generator state, the number of
\* rows read from the orders table, and whether the loop has left by break.
\* One iteration of lines 74-121 for row i:
OrdersIteration(orders, i, order_quantity, order_sellers, max_samples, st) ==
    IF st.stopped THEN st
    ELSE IF ~RowRetained(orders[i]) THEN [st EXCEPT !.read = i]
    ELSE LET s == OrderStep(orders[i], order_quantity, order_sellers, st.rng)
             appended == Append(st.data, s.rec)
         IN [data |-> appended, rng |-> s.rng, read |-> i,
             stopped |-> LimitReached(appended, max_samples)]

\* the for loop over rows lo..hi, in order (the range is halved to keep the
\* evaluation depth logarithmic)
RECURSIVE OrdersLoop(_, _, _, _, _, _, _)
OrdersLoop(orders, lo, hi, order_quantity, order_sellers, max_samples, st) ==
    IF lo > hi \/ st.stopped THEN st
    ELSE IF lo = hi
         THEN OrdersIteration(orders, lo, order_quantity, order_sellers, max_samples, st)
    ELSE LET mid == (lo + hi) \div 2
             left == OrdersLoop(orders, lo, mid, order_quantity, order_sellers,
                                max_samples, st)
         IN OrdersLoop(orders, mid + 1, hi, order_quantity, order_sellers,
                       max_samples, left)

Raised(error) == [outcome |-> error, data |-> <<>>, read |-> 0]

\* transform_olist_to_delay_dataset(olist_dir, max_samples) on a directory
\* dir = [orders, items], each table [exists, rows]; random.seed(42) puts the
\* generator in state mt42.  Returns the outcome ("ok" or the exception), the
\* list returned and the number of orders rows read.
transform_olist_to_delay_dataset(dir, max_samples, mt42) ==
    IF ~dir.orders.exists THEN Raised("FileNotFoundError")
    ELSE IF ~dir.items.exists THEN Raised("FileNotFoundError")
    ELSE IF ItemsScanRaises(dir.items.rows) THEN Raised("AttributeError")
    ELSE LET order_quantity == OrderQuantity(dir.items.rows)
             order_sellers == OrderSellers(dir.items.rows)
             st == OrdersLoop(dir.orders.rows, 1, Len(dir.orders.rows),
                              order_quantity, order_sellers, max_samples,
                              [data |-> <<>>, rng |-> mt42, read |-> 0,
                               stopped |-> FALSE])
         IN [outcome |-> "ok", data |-> st.data, read |-> st.read]

(***************************************************************************)
(* Inputs of the function specifications                                   *)
(***************************************************************************)
MaxRows == 3    \* longest orders table built from RowChoices
MaxN == 3       \* largest max_samples tried on those tables
MaxSeed == 2    \* generator states tried for random.seed(42)

Table(rows) == [exists |-> TRUE, rows |-> rows]
NoTable == [exists |-> FALSE, rows |-> <<>>]

OrderRow(oid, status, purchase, delivered, estimated) ==
    [order_id |-> oid, order_status |-> status,
     order_purchase_timestamp |-> purchase,
     order_delivered_customer_date |-> delivered,
     order_estimated_delivery_date |-> estimated]

ItemRow(oid, sid) == [order_id |-> oid, seller_id |-> sid]

DateStrings ==
    {DateStr("full", 0, 0), DateStr("full", 0, 100), DateStr("full", 1, 3602),
     DateStr("full", 9, 0), DateStr("date", 0, 0), DateStr("date", 9, 0),
     DateStr("datejunk", 1, 3602), PaddedDateStr("full", 0, 100),
     DateStr("empty", 0, 0), PaddedDateStr("empty", 0, 0),
     DateStr("junk", 0, 0), NoneDate}

Statuses == {Str("delivered"), Str("canceled"), Padded("delivered"), None}

\* every combination of status and the three date fields
AllRows ==
    {OrderRow(Str("o1"), st, p, d, e) :
        st \in Statuses, p \in DateStrings, d \in DateStrings, e \in DateStrings}

\* rows for the longer tables; the retained ones differ pairwise in their
\* estimated-delivery window (time_hours), so a record identifies its row
RowLate ==
    OrderRow(Str("o1"), Str("delivered"), DateStr("full", 0, 0),
             DateStr("full", 1, 3602), DateStr("full", 1, 0))
RowEarly ==
    OrderRow(Str("o2"), Str("delivered"), DateStr("full", 1, 3602),
             DateStr("date", 0, 0), DateStr("full", 0, 100))
RowDateOnly ==
    OrderRow(Padded("o1"), Str("delivered"), DateStr("date", 0, 0),
             DateStr("datejunk", 1, 3602), DateStr("date", 9, 0))
RowNoId ==
    OrderRow(None, Str("delivered"), PaddedDateStr("full", 0, 100),
             DateStr("full", 0, 100), DateStr("full", 0, 3602))
RowCanceled ==
    OrderRow(Str("o1"), Str("canceled"), DateStr("full", 0, 0),
             DateStr("full", 1, 3602), DateStr("full", 1, 0))
RowPaddedStatus ==
    OrderRow(Str("o1"), Padded("delivered"), DateStr("full", 0, 0),
             DateStr("full", 1, 3602), DateStr("full", 1, 0))
RowNoStatus ==
    OrderRow(Str("o2"), None, DateStr("full", 0, 0),
             DateStr("full", 1, 3602), DateStr("full", 1, 0))
RowBadDelivered ==
    OrderRow(Str("o1"), Str("delivered"), DateStr("full", 0, 0),
             DateStr("junk", 0, 0), DateStr("full", 1, 0))
RowNoEstimated ==
    OrderRow(Str("o1"), Str("delivered"), DateStr("full", 0, 0),
             DateStr("full", 1, 0), DateStr("empty", 0, 0))
RowNoPurchase ==
    OrderRow(Str("o2"), Str("delivered"), NoneDate,
             DateStr("full", 1, 0), DateStr("full", 1, 0))

RowChoices ==
    {RowLate, RowEarly, RowDateOnly, RowNoId, RowCanceled, RowPaddedStatus,
     RowNoStatus, RowBadDelivered, RowNoEstimated, RowNoPurchase}

SeqsUpTo(S, n) == UNION {[1..k -> S] : k \in 0..n}

SellerNames == <<"s1", "s2", "s3", "s4", "s5", "s6">>

\* 201 line items of order o1, spread over six sellers
BigItems == [i \in 1..201 |-> ItemRow(Str("o1"), Str(SellerNames[(i % 6) + 1]))]

SmallItems ==
    <<ItemRow(Str("o1"), Str("s1")), ItemRow(Padded("o1"), Str("s2")),
      ItemRow(Str(""), Str("s3")), ItemRow(Str("o2"), Str("")),
      ItemRow(Str("o2"), Padded("s1")), ItemRow(Str("o2"), Str("s1")),
      ItemRow(Padded(""), None)>>

\* the second row has no seller_id value: the items scan raises
ShortItems == <<ItemRow(Str("o1"), Str("s1")), ItemRow(Str("o1"), None)>>

ItemTables == {<<>>, SmallItems, BigItems, ShortItems}

TransformCall(orders, items, max_samples, mt42) ==
    [dir |-> [orders |-> orders, items |-> items], max_samples |-> max_samples,
     mt42 |-> mt42]

(***************************************************************************)
(* Specification SpecTransform: transform_olist_to_delay_dataset applied   *)
(* to the calls above.                                                     *)
(***************************************************************************)
InitTransform ==
    /\ pc = "call"
    /\ \/ \E t \in SeqsUpTo(RowChoices, MaxRows), it \in ItemTables,
             n \in 0..MaxN, s \in 1..MaxSeed :
               call = TransformCall(Table(t), Table(it), n, s)
       \/ \E r \in AllRows, it \in ItemTables, s \in 1..MaxSeed :
               call = TransformCall(Table(<<r>>), Table(it), 2000, s)
       \/ \E r \in {RowLate, RowEarly, RowDateOnly, RowNoId}, it \in ItemTables,
             s \in 1..(RngMod - 1) :
               call = TransformCall(Table(<<r>>), Table(it), 2000, s)
       \/ \E o \in {NoTable, Table(<<>>)}, it \in {NoTable, Table(<<>>)} :
               call = TransformCall(o, it, 2000, 1)
    /\ ret = <<>>
    /\ datasetFile = NoFile /\ modelFile = NoModelFile /\ env = NoEnv
    /\ data = <<>> /\ model = NoModel /\ before = NoBefore /\ result = NoResult

ApplyTransform ==
    /\ pc = "call"
    /\ ret' = <<transform_olist_to_delay_dataset(call.dir, call.max_samples, call.mt42)>>
    /\ pc' = "returned"
    /\ UNCHANGED <<datasetFile, modelFile, env, data, model, before, result, call>>

NextTransform == ApplyTransform

SpecTransform == InitTransform /\ [][NextTransform]_vars

\* the claims' own reading of a row that may contribute a record
DeliveredWithDates(row) ==
    /\ row.order_status.none = FALSE
    /\ row.order_status.text = "delivered" /\ ~row.order_status.pad
    /\ \A s \in {row.order_purchase_timestamp, row.order_delivered_customer_date,
                 row.order_estimated_delivery_date} : parse_date(s).ok

\* the rows of the call's orders table that are delivered with three dates
ValidRows == SelectSeq(call.dir.orders.rows, DeliveredWithDates)

Returned == pc = "returned" /\ ret[1].outcome = "ok"

\* C1: the records returned are those of delivered rows with three parseable
\* dates, one per such row and in the rows' order (a record is matched to
\* its row by the row's estimated-delivery window); no other row contributes.
C1_OnlyDeliveredInOrder ==
    Returned =>
        /\ Len(ret[1].data) <= Len(ValidRows)
        /\ \A k \in 1..Len(ret[1].data) :
              ret[1].data[k].time_hours =
                  TimeHours(parse_date(ValidRows[k].order_estimated_delivery_date).t
                            - parse_date(ValidRows[k].order_purchase_timestamp).t)

\* C1 witness: a table of three rows in which a non-delivered row and a row
\* with a bad date lie around retained rows, and two records come back.
C1_Witness ==
    /\ Returned
    /\ Len(call.dir.orders.rows) = 3
    /\ call.dir.orders.rows[2].order_status # Str("delivered")
    /\ Len(ret[1].data) = 2
    /\ ret[1].data[1].time_hours # ret[1].data[2].time_hours

\* C2: a record is labelled delayed exactly when its row's parsed delivered
\* timestamp is strictly later than its parsed estimated-delivery timestamp.
C2_DelayedIffLate ==
    Returned =>
        \A k \in 1..Min(Len(ret[1].data), Len(ValidRows)) :
            (ret[1].data[k].delayed = 1) <=>
                (parse_date(ValidRows[k].order_delivered_customer_date).t
                 > parse_date(ValidRows[k].order_estimated_delivery_date).t)

\* C2 witness: a record whose delivered and estimated timestamps are equal
\* after parsing (a date-only string against midnight) and is labelled 0.
C2_Witness ==
    /\ Returned
    /\ Len(ret[1].data) = 1 /\ Len(ValidRows) = 1
    /\ ValidRows[1].order_delivered_customer_date.fmt = "date"
    /\ ValidRows[1].order_estimated_delivery_date.fmt = "full"
    /\ parse_date(ValidRows[1].order_delivered_customer_date).t
       = parse_date(ValidRows[1].order_estimated_delivery_date).t
    /\ ret[1].data[1].delayed = 0

\* C3: every record returned has quantity in [1,200], time_hours in
\* [0.5,200] and staff_workload in [0,8].
C3_RangesHold ==
    Returned =>
        \A k \in 1..Len(ret[1].data) :
            /\ ret[1].data[k].quantity \in 1..200
            /\ ret[1].data[k].time_hours \in 50..20000
            /\ ret[1].data[k].staff_workload \in 0..80

\* C3 witness: an order of 201 line items from six sellers whose estimated
\* date precedes its purchase: every clamp is active.
C3_Witness ==
    /\ Returned
    /\ Len(ret[1].data) = 1 /\ Len(ValidRows) = 1
    /\ call.dir.items.rows = BigItems
    /\ parse_date(ValidRows[1].order_estimated_delivery_date).t
       < parse_date(ValidRows[1].order_purchase_timestamp).t
    /\ ret[1].data[1].quantity = 200
    /\ ret[1].data[1].time_hours = 50
    /\ ret[1].data[1].staff_workload = 80

\* the index in the orders table of its n-th valid row (0 when there is none)
IndexOfValid(n) ==
    LET rows == call.dir.orders.rows
        hits == {i \in 1..Len(rows) :
                    /\ DeliveredWithDates(rows[i])
                    /\ Cardinality({j \in 1..i : DeliveredWithDates(rows[j])}) = n}
    IN IF hits = {} THEN 0 ELSE CHOOSE i \in hits : TRUE

\* C9: for every limit N >= 0 the call returns exactly min(N, V) records,
\* V being the number of valid rows, and reads no row past the one that
\* supplied the N-th record.
C9_ExactlyMinOfLimit ==
    Returned =>
        /\ Len(ret[1].data) = Min(call.max_samples, Len(ValidRows))
        /\ (call.max_samples >= 1 /\ Len(ValidRows) >= call.max_samples) =>
              ret[1].read = IndexOfValid(call.max_samples)

(***************************************************************************)
(* Specification SpecSynth: one iteration of the generator's loop body     *)
(* applied to every combination of drawn values.                           *)
(***************************************************************************)
SynthInputs ==
    [quantity : {QuantityChoices[i] : i \in 1..Len(QuantityChoices)},
     priority : 0..3,
     u : {UniformOf(f, 0, 500) : f \in Fractions},
     has_deadline : {0, 1},
     wDraw : {UniformOf(f, 0, 8000) : f \in Fractions},
     num_candidates : {1, 2, 3},
     channel : {0, 1},
     r : Fractions]

InitSynth ==
    /\ pc = "call"
    /\ call \in SynthInputs
    /\ ret = <<>>
    /\ datasetFile = NoFile /\ modelFile = NoModelFile /\ env = NoEnv
    /\ data = <<>> /\ model = NoModel /\ before = NoBefore /\ result = NoResult

ApplySynthRecord ==
    /\ pc = "call"
    /\ ret' = <<SynthRecord(call.quantity, call.priority, call.u, call.has_deadline,
                            call.wDraw, call.num_candidates, call.channel, call.r)>>
    /\ pc' = "returned"
    /\ UNCHANGED <<datasetFile, modelFile, env, data, model, before, result, call>>

NextSynth == ApplySynthRecord

SpecSynth == InitSynth /\ [][NextSynth]_vars

\* C6: a synthetic record whose quantity is at least 150 is labelled delayed,
\* whatever was drawn for the other fields and for the residual 15% chance.
C6_HighQuantityDelayed ==
    pc = "returned" =>
        (ret[1].quantity >= 150 => ret[1].delayed = 1)

\* C6 witness: a quantity-200 record on which no earlier branch of the rule
\* fires and the residual draw is above 15%, yet the label is 1.
C6_Witness ==
    /\ pc = "returned"
    /\ ret[1].quantity = 200
    /\ call.has_deadline = 0
    /\ call.num_candidates = 3
    /\ ret[1].staff_workload < 60
    /\ call.r >= 150
    /\ ret[1].delayed = 1
(***************************************************************************)
(* The two scripts' main() and the specification Spec: an operator runs    *)
(* the Dataset Builder and the Model Trainer one after the other, in any   *)
(* order and any number of times, on one machine.                          *)
(***************************************************************************)
\* find_olist_dir: the index in OLIST_PATHS of the first directory holding
\* the orders table, 0 for None
find_olist_dir(dirs) ==
    LET found == {k \in 1..Len(dirs) : dirs[k].orders.exists}
    IN IF found = {} THEN 0 ELSE CHOOSE k \in found : \A j \in found : k <= j

\* lines 137-142 of the Builder with the synthetic count left at 1000
FillToTargetMutFullThousand(real, mt42) ==
    IF Len(real) < 100
    THEN real \o generate_synthetic_dataset(1000, mt42)
    ELSE real

\* lines 137-142 of the Builder's main
FillToTarget(real, mt42) ==
    IF Len(real) < 100
    THEN real \o generate_synthetic_dataset(1000 - Len(real), mt42)
    ELSE real

\* the Trainer's regeneration written the way the Builder fills up
RegenerateMutKeepLoaded(loaded, mt42) ==
    loaded \o generate_synthetic_dataset(1000 - Len(loaded), mt42)

\* lines 130 and 137 of the Trainer's main: the loaded records are dropped
Regenerate(loaded, mt42) == generate_synthetic_dataset(1000, mt42)

Files == [dataset |-> datasetFile, model |-> modelFile]

Running(script, printed) ==
    [script |-> script, outcome |-> "running", stage |-> "none", printed |-> printed]
Ended(script, outcome, stage, printed) ==
    [script |-> script, outcome |-> outcome, stage |-> stage, printed |-> printed]

\* BuilderFind with the output file opened for writing before the transform
BuilderFindMutOpenEarly ==
    /\ pc = "idle"
    /\ before' = Files
    /\ ret' = <<>>
    /\ LET d == find_olist_dir(env.dirs)
       IN IF d = 0
          THEN /\ result' = Ended("builder", "NameError", "find",
                                  <<"ERROR: Olist data folder not found.">>)
               /\ pc' = "idle"
               /\ call' = <<>>
               /\ UNCHANGED datasetFile
          ELSE /\ result' = Running("builder", <<"Loading Olist data from">>)
               /\ pc' = "b_found"
               /\ call' = TransformCall(env.dirs[d].orders, env.dirs[d].items,
                                        2000, env.mt42)
               /\ datasetFile' = [state |-> "corrupt", content |-> <<>>]
    /\ UNCHANGED <<modelFile, env, data, model>>

\* Builder main, lines 127-134
BuilderFind ==
    /\ pc = "idle"
    /\ before' = Files
    /\ ret' = <<>>
    /\ LET d == find_olist_dir(env.dirs)
       IN IF d = 0
          THEN \* line 129 prints, line 130 reads the undefined name OLIST_DIR
               /\ result' = Ended("builder", "NameError", "find",
                                  <<"ERROR: Olist data folder not found.">>)
               /\ pc' = "idle"
               /\ call' = <<>>
          ELSE /\ result' = Running("builder", <<"Loading Olist data from">>)
               /\ pc' = "b_found"
               /\ call' = TransformCall(env.dirs[d].orders, env.dirs[d].items,
                                        2000, env.mt42)
    /\ UNCHANGED <<datasetFile, modelFile, env, data, model>>

\* Builder main, line 135
BuilderTransform ==
    /\ pc = "b_found"
    /\ LET r == transform_olist_to_delay_dataset(call.dir, call.max_samples, call.mt42)
       IN /\ ret' = <<r>>
          /\ IF r.outcome = "ok"
             THEN /\ data' = r.data
                  /\ pc' = "b_transformed"
                  /\ UNCHANGED result
             ELSE /\ data' = <<>>
                  /\ pc' = "idle"
                  /\ result' = Ended("builder", r.outcome, "transform", result.printed)
    /\ UNCHANGED <<datasetFile, modelFile, env, model, before, call>>

\* Builder main, lines 137-151
BuilderWrite(io) ==
    /\ pc = "b_transformed"
    /\ LET filled == FillToTarget(data, env.mt42)
           printed == result.printed
                      \o (IF Len(data) < 100 THEN <<"WARNING", "Using synthetic data">>
                          ELSE <<>>)
                      \o <<"Transformed">>
       IN /\ datasetFile' = WriteFile(datasetFile, filled, io)
          /\ result' = IF io = "ok"
                       THEN Ended("builder", "return 0", "end", printed \o <<"Saved">>)
                       ELSE Ended("builder", "OSError", "write dataset", printed)
    /\ data' = <<>>
    /\ pc' = "idle"
    /\ UNCHANGED <<modelFile, env, model, before, call, ret>>

\* Trainer main, lines 125-140
TrainerLoad(io) ==
    /\ pc = "idle"
    /\ before' = Files
    /\ call' = <<>>
    /\ ret' = <<>>
    /\ IF datasetFile.state = "corrupt"
       THEN \* json.load raises
            /\ io = "ok"
            /\ result' = Ended("trainer", "JSONDecodeError", "load", <<>>)
            /\ pc' = "idle"
            /\ UNCHANGED <<datasetFile, data>>
       ELSE IF datasetFile.state = "ok" /\ ~(Len(datasetFile.content) < 1000)
       THEN /\ io = "ok"
            /\ data' = datasetFile.content
            /\ result' = Running("trainer", <<"Loaded">>)
            /\ pc' = "t_loaded"
            /\ UNCHANGED datasetFile
       ELSE LET loaded == IF datasetFile.state = "ok" THEN datasetFile.content ELSE <<>>
                generated == Regenerate(loaded, env.mt42)
            IN /\ datasetFile' = WriteFile(datasetFile, generated, io)
               /\ IF io = "ok"
                  THEN /\ data' = generated
                       /\ result' = Running("trainer", <<"generated">>)
                       /\ pc' = "t_loaded"
                  ELSE /\ data' = <<>>
                       /\ result' = Ended("trainer", "OSError", "write dataset", <<>>)
                       /\ pc' = "idle"
    /\ UNCHANGED <<modelFile, env, model>>

\* Trainer main, lines 143-148
TrainerTrain ==
    /\ pc = "t_loaded"
    /\ IF env.hasSklearn
       THEN IF SingleClass(data)
            THEN /\ result' = Ended("trainer", "ValueError", "train", result.printed)
                 /\ pc' = "idle"
                 /\ data' = <<>>
                 /\ UNCHANGED model
            ELSE /\ model' = train_with_sklearn(data)
                 /\ result' = [result EXCEPT !.printed = @ \o <<"Trained with scikit-learn">>]
                 /\ pc' = "t_trained"
                 /\ UNCHANGED data
       ELSE /\ model' = train_simple(data)
            /\ result' = [result EXCEPT !.printed = @ \o <<"Using rule-based weights">>]
            /\ pc' = "t_trained"
            /\ UNCHANGED data
    /\ UNCHANGED <<datasetFile, modelFile, env, before, call, ret>>

\* Trainer main, lines 151-153
TrainerSave(io) ==
    /\ pc = "t_trained"
    /\ modelFile' = WriteFile(modelFile, model, io)
    /\ result' = IF io = "ok"
                 THEN Ended("trainer", "return None", "end",
                            result.printed \o <<"Model saved">>)
                 ELSE Ended("trainer", "OSError", "write model", result.printed)
    /\ pc' = "idle"
    /\ data' = <<>>
    /\ model' = NoModel
    /\ UNCHANGED <<datasetFile, env, before, call, ret>>

Next ==
    \/ BuilderFind
    \/ BuilderTransform
    \/ \E io \in IoOutcomes : BuilderWrite(io)
    \/ \E io \in IoOutcomes : TrainerLoad(io)
    \/ TrainerTrain
    \/ \E io \in IoOutcomes : TrainerSave(io)

(***************************************************************************)
(* Initial states of Spec: what is on the machine before the first run     *)
(***************************************************************************)
RepeatRows(pattern, n) == [i \in 1..n |-> pattern[((i - 1) % Len(pattern)) + 1]]

ValidPattern == <<RowLate, RowEarly, RowDateOnly, RowNoId>>
MixedPattern == <<RowLate, RowCanceled, RowEarly, RowBadDelivered, RowDateOnly,
                  RowNoStatus, RowNoId, RowNoEstimated, RowPaddedStatus, RowNoPurchase>>

\* five orders, three delivered with dates and two canceled
FiveOrders == <<RowLate, RowCanceled, RowEarly, RowCanceled, RowDateOnly>>

EmptyDir == [orders |-> NoTable, items |-> NoTable]
Dir(orders, items) == [orders |-> Table(orders), items |-> Table(items)]

DirChoices ==
    {Dir(FiveOrders, SmallItems),
     Dir(<<>>, SmallItems),
     Dir(RepeatRows(ValidPattern, 99), SmallItems),
     Dir(RepeatRows(ValidPattern, 100), BigItems),
     Dir(RepeatRows(MixedPattern, 260), SmallItems),
     Dir(FiveOrders, ShortItems),
     [orders |-> Table(FiveOrders), items |-> NoTable]}

\* the three entries of OLIST_PATHS
DirLists ==
    {<<d, EmptyDir, EmptyDir>> : d \in DirChoices}
    \cup {<<EmptyDir, Dir(FiveOrders, SmallItems), Dir(<<>>, <<>>)>>,
          <<[orders |-> NoTable, items |-> Table(SmallItems)], EmptyDir,
            Dir(RepeatRows(ValidPattern, 100), SmallItems)>>,
          <<EmptyDir, EmptyDir, EmptyDir>>,
          <<[orders |-> NoTable, items |-> Table(SmallItems)], EmptyDir, EmptyDir>>}

OnTimeRecord == SynthRecord(5, 0, 0, 0, 0, 3, 0, 999)
LateRecord == SynthRecord(200, 3, 499, 1, 7992, 1, 1, 0)

File(content) == [state |-> "ok", content |-> content]

\* dataset files left by earlier runs or put there by hand
DatasetFiles ==
    {NoFile,
     [state |-> "corrupt", content |-> <<>>],
     File(RepeatRows(<<OnTimeRecord, LateRecord>>, 50)),
     File(RepeatRows(<<OnTimeRecord, LateRecord>>, 999)),
     File(RepeatRows(<<OnTimeRecord, LateRecord>>, 1000)),
     File(RepeatRows(<<OnTimeRecord>>, 1000))}

ModelFiles == {NoModelFile, File(train_simple(<<>>))}

Init ==
    /\ pc = "idle"
    /\ datasetFile \in DatasetFiles
    /\ modelFile \in ModelFiles
    /\ \E dirs \in DirLists, sk \in BOOLEAN, s \in 1..MaxSeed :
          env = [dirs |-> dirs, hasSklearn |-> sk, mt42 |-> s]
    /\ data = <<>>
    /\ model = NoModel
    /\ before = NoBefore
    /\ result = NoResult
    /\ call = <<>>
    /\ ret = <<>>

Spec == Init /\ [][Next]_vars

TypeOK ==
    /\ pc \in {"idle", "b_found", "b_transformed", "t_loaded", "t_trained"}
    /\ datasetFile.state \in {"absent", "ok", "corrupt"}
    /\ modelFile.state \in {"absent", "ok", "corrupt"}

Idle(script) == pc = "idle" /\ result.script = script

\* the dataset file the run started from is absent or holds fewer than 1000 records
StartedShort ==
    \/ before.dataset.state = "absent"
    \/ before.dataset.state = "ok" /\ Len(before.dataset.content) < 1000

\* C4: when the Trainer starts with the dataset file absent or holding fewer
\* than 1000 records, then at the time it trains the file holds exactly the
\* 1000 records of generate_synthetic_dataset, none of the earlier ones, and
\* those 1000 records are the data it trains on.
C4_RegeneratedBeforeTraining ==
    (result.script = "trainer" /\ pc \in {"t_loaded", "t_trained"} /\ StartedShort) =>
        /\ datasetFile.state = "ok"
        /\ Len(datasetFile.content) = 1000
        /\ datasetFile.content = generate_synthetic_dataset(1000, env.mt42)
        /\ data = datasetFile.content

\* C4 witness: the Trainer has trained after starting from a 50-record file.
C4_Witness ==
    /\ pc = "t_trained"
    /\ before.dataset.state = "ok"
    /\ Len(before.dataset.content) = 50
    /\ Len(datasetFile.content) = 1000
    /\ datasetFile.content # RepeatRows(<<OnTimeRecord, LateRecord>>, 1000)

OrderRecordFeatures ==
    <<"quantity", "priority", "time_hours", "has_deadline", "staff_workload",
      "num_tasks", "num_candidates", "channel">>

ModelShape(m) ==
    /\ m.features = OrderRecordFeatures
    /\ Len(m.features) = 8
    /\ Len(m.coef) = 8
    /\ Len(m.scaler_mean) = 8
    /\ Len(m.scaler_scale) = 8

IdentityScaler(m) ==
    /\ \A i \in 1..Len(m.scaler_mean) : m.scaler_mean[i] = Literal(0)
    /\ \A i \in 1..Len(m.scaler_scale) : m.scaler_scale[i] = Literal(1000)

\* C5: the model the Trainer builds and the model file it writes have
\* features, coef, scaler_mean and scaler_scale of length 8, features being
\* the eight OrderRecord feature names in order; without scikit-learn the
\* scaler is the identity (mean 0, scale 1).
C5_ModelShape ==
    /\ pc = "t_trained" =>
          /\ ModelShape(model)
          /\ ~env.hasSklearn => IdentityScaler(model)
    /\ (Idle("trainer") /\ result.outcome = "return None") =>
          /\ modelFile.state = "ok"
          /\ ModelShape(modelFile.content)
          /\ ~env.hasSklearn => IdentityScaler(modelFile.content)

\* C5 witness: a fallback model written where no model file existed.
C5_Witness ==
    /\ Idle("trainer") /\ result.outcome = "return None"
    /\ ~env.hasSklearn
    /\ before.model.state = "absent"
    /\ modelFile.state = "ok"
    /\ modelFile.content.coef[7] = Literal(-500)

\* C5 second path: a fitted model written by the scikit-learn path.
C5_FittedWritten ==
    /\ Idle("trainer") /\ result.outcome = "return None"
    /\ env.hasSklearn
    /\ modelFile.content.coef[1] = Fitted

\* C7: when no candidate directory holds the orders table, the Builder's
\* main prints a diagnostic, returns 1 and leaves the dataset file alone;
\* every other run of it that returns, returns 0.
C7_MissingInputReturnsOne ==
    Idle("builder") =>
        IF find_olist_dir(env.dirs) = 0
        THEN /\ result.outcome = "return 1"
             /\ Len(result.printed) > 0
             /\ datasetFile = before.dataset
        ELSE result.outcome \in {"return 0", "return 1"} => result.outcome = "return 0"

Completed == result.outcome \in {"return 0", "return 1", "return None"}

OutputWritten ==
    /\ result.script = "builder" => datasetFile.state = "ok"
    /\ result.script = "trainer" => modelFile.state = "ok"

\* C8: a run that completes has written its output file, and a run that
\* fails at any step leaves the dataset file and the model file exactly as
\* they were before the run.
C8_AllOrNothing ==
    (pc = "idle" /\ result.script # "none") =>
        IF Completed THEN OutputWritten ELSE Files = before

Truncated(file) == file.state = "corrupt"

\* C8 amended: a run that completes has written its output file.  A run
\* that fails before it opens a file for writing leaves both files as they
\* were.  A run that fails while writing a file leaves that file either as
\* it was or truncated, and the other file as it was - except that a Trainer
\* run failing at or after training has, when it started from an absent or
\* short dataset file, already replaced it by the 1000 synthetic records.
C8_FailureLeavesFiles ==
    (pc = "idle" /\ result.script # "none") =>
        IF Completed THEN OutputWritten
        ELSE /\ result.stage \in {"find", "transform", "load"} => Files = before
             /\ result.stage = "write dataset" =>
                   /\ modelFile = before.model
                   /\ datasetFile = before.dataset \/ Truncated(datasetFile)
             /\ result.stage \in {"train", "write model"} =>
                   /\ \/ modelFile = before.model
                      \/ result.stage = "write model" /\ Truncated(modelFile)
                   /\ IF StartedShort
                      THEN datasetFile
                           = File(generate_synthetic_dataset(1000, env.mt42))
                      ELSE datasetFile = before.dataset

\* C8 witness: the Builder failed in the transform (no items table) with a
\* dataset file present, which is still there unchanged.
C8_Witness ==
    /\ Idle("builder")
    /\ result.outcome = "FileNotFoundError"
    /\ before.dataset.state = "ok"
    /\ datasetFile = before.dataset

\* C8: the Trainer regenerated the dataset and then failed to write the model
C8_RegeneratedThenFailed ==
    /\ Idle("trainer")
    /\ result.stage = "write model"
    /\ before.dataset.state = "absent"
    /\ datasetFile.state = "ok"

\* C10: when the Builder returns 0 after obtaining fewer than 100 real
\* records, the dataset file holds exactly 1000 records: the real ones
\* first, unchanged and in order, then the records of
\* generate_synthetic_dataset(1000 - count); with 100 or more real records
\* the file holds exactly the real records.
C10_FillOrKeep ==
    (Idle("builder") /\ result.outcome = "return 0") =>
        LET real == ret[1].data
            content == datasetFile.content
        IN /\ datasetFile.state = "ok"
           /\ IF Len(real) < 100
              THEN /\ Len(content) = 1000
                   /\ SubSeq(content, 1, Len(real)) = real
                   /\ SubSeq(content, Len(real) + 1, 1000)
                      = generate_synthetic_dataset(1000 - Len(real), env.mt42)
              ELSE content = real

\* C10 witness: three real records followed by 997 synthetic ones.
C10_Witness ==
    /\ Idle("builder") /\ result.outcome = "return 0"
    /\ Len(ret[1].data) = 3
    /\ Len(datasetFile.content) = 1000

\* C10 second case: 100 real records written alone.
C10_RealOnly ==
    /\ Idle("builder") /\ result.outcome = "return 0"
    /\ Len(ret[1].data) = 100
    /\ Len(datasetFile.content) = 100
====
